---- MODULE Spec2Model ----
(***************************************************************************)
(* State-machine model of the Whisper speech-to-text gateway:              *)
(*   app/utils.py        ResourceManager (admission counter)               *)
(*   app/transcriber.py  WhisperTranscriber (current model, transcribe)    *)
(*   app/audio.py        AudioProcessor (normalisation)                    *)
(*   app/main.py         /transcribe, /stream, WebSocket /stream/{id}      *)
(*   app/wyoming.py      device-protocol server                            *)
(* All handlers run as coroutines on one event loop: a handler runs        *)
(* without interruption between two points where it really suspends        *)
(* (reading the upload, sending or receiving on a socket), so one action   *)
(* is the code between two such points.                                    *)
(***************************************************************************)
EXTENDS Integers, Sequences, FiniteSets, TLC

\* ------------------------------------------------------------- bounds
\* check_resources calls in one behaviour
MaxChecks == 2
\* inbound frames one WebSocket session reads
MaxFrames == 3
\* value of the MAX_CONCURRENT environment setting used for the model
MaxConcurrentEnv == 1
\* audio chunks one device-protocol Transcribe request may carry
MaxWyChunks == 1

\* the /transcribe requests, WebSocket sessions and device connections
HttpIds == {"h1", "h2"}
WsIds == {"s1"}
WyIds == {"c1"}

\* --------------------------------------------------- program constants
\* ResourceManager.__init__
max_memory == 8192
max_concurrent == MaxConcurrentEnv
\* AudioProcessor.__init__
sample_rate == 16000
\* model loaded at start-up (WHISPER_MODEL default)
StartupModel == "tiny"
\* names whisper.load_model accepts; any other name makes it raise
KnownModels == {"tiny", "base"}

\* ---------------------------------------------------------- inputs
\* resident memory in MB seen by get_memory_usage
MemSnapshots == {max_memory, max_memory + 1}
\* what ffmpeg makes of an upload
FileKinds == {"ok", "unsupported"}
\* X-Model header / Transcribe.model ("none": not given)
ModelArgs == {"none", "tiny", "base", "bogus"}
\* what the engine makes of one utterance
AsrOutcomes == {"text", "empty", "fail"}
\* lengths of inbound WebSocket binary frames, in bytes
FrameLens == {1, 2, 16001, 32001}
\* mean absolute value of a frame's 16-bit samples
Energies == {32, 33}
Chunks == [len : FrameLens, energy : Energies]
\* an utterance handed to the normaliser and then to the engine: when the
\* normaliser rejects it the engine is never asked
Utterances ==
    {[kind |-> "unsupported", asr |-> "fail"]}
    \cup {[kind |-> "ok", asr |-> a] : a \in AsrOutcomes}

\* methods the AudioProcessor class defines (audio.py has no detect_speech)
AudioProcessorMethods ==
    {"process_audio", "process_audio_bytes", "_process_audio_file", "cleanup"}
\* attributes a WhisperTranscriber instance has (no supported_models)
TranscriberAttrs ==
    {"model", "current_model_name", "device", "supported_languages",
     "load_model", "transcribe", "cleanup"}

VARIABLES
    current_requests,       \* ResourceManager._current_requests
    model,                  \* WhisperTranscriber.model (the loaded object)
    current_model_name,     \* WhisperTranscriber.current_model_name
    audio_processor_attrs,  \* methods of the audio_processor instance
    http,                   \* /transcribe requests: "idle", "reading"
                            \* (awaiting file.read(), temp_input on disk),
                            \* "unlinked" (the same, temp_input deleted),
                            \* "cleanup" (answered, cleanup task scheduled)
    last_response,          \* the last /transcribe request answered
    ws,                     \* WebSocket sessions
    wy,                     \* device-protocol connections
    last_check,             \* the last check_resources call and its outcome
    n_checks                \* number of check_resources calls so far

vars == <<current_requests, model, current_model_name, audio_processor_attrs,
          http, last_response, ws, wy, last_check, n_checks>>

\* ------------------------------------------------------ ResourceManager
check_resources_counter_first(mem, cur) ==
    IF cur >= max_concurrent
    THEN [ok |-> FALSE, status |-> 503,
          message |-> "Too many concurrent requests", cur |-> cur]
    ELSE IF mem > max_memory
    THEN [ok |-> FALSE, status |-> 503,
          message |-> "Server is overloaded", cur |-> cur]
    ELSE [ok |-> TRUE, status |-> 0, message |-> "none", cur |-> cur + 1]

\* check_resources: memory first, then the counter, then the increment
check_resources(mem, cur) ==
    IF mem > max_memory
    THEN [ok |-> FALSE, status |-> 503,
          message |-> "Server is overloaded", cur |-> cur]
    ELSE IF cur >= max_concurrent
    THEN [ok |-> FALSE, status |-> 503,
          message |-> "Too many concurrent requests", cur |-> cur]
    ELSE [ok |-> TRUE, status |-> 0, message |-> "none", cur |-> cur + 1]

release_resources_unguarded(cur) == cur - 1

\* release_resources: decrement, but never below zero
release_resources(cur) == IF cur > 0 THEN cur - 1 ELSE cur

\* the bookkeeping of one check_resources call
Checked(mem, r) ==
    /\ n_checks < MaxChecks
    /\ n_checks' = n_checks + 1
    /\ last_check' = [mem |-> mem, before |-> current_requests, res |-> r]
    /\ current_requests' = r.cur

\* --------------------------------------------------- WhisperTranscriber
load_model_always(name, m, cur_name) ==
    IF name \in KnownModels
    THEN [ok |-> TRUE, model |-> name, name |-> name, loads |-> 1,
          message |-> "none"]
    ELSE [ok |-> FALSE, model |-> m, name |-> cur_name, loads |-> 1,
          message |-> "load failed"]

load_model_without_rename(name, m, cur_name) ==
    IF name /= cur_name
    THEN IF name \in KnownModels
         THEN [ok |-> TRUE, model |-> name, name |-> cur_name, loads |-> 1,
               message |-> "none"]
         ELSE [ok |-> FALSE, model |-> m, name |-> cur_name, loads |-> 1,
               message |-> "load failed"]
    ELSE [ok |-> TRUE, model |-> m, name |-> cur_name, loads |-> 0,
          message |-> "none"]

load_model_name_first(name, m, cur_name) ==
    IF name /= cur_name
    THEN IF name \in KnownModels
         THEN [ok |-> TRUE, model |-> name, name |-> name, loads |-> 1,
               message |-> "none"]
         ELSE [ok |-> FALSE, model |-> m, name |-> name, loads |-> 1,
               message |-> "load failed"]
    ELSE [ok |-> TRUE, model |-> m, name |-> cur_name, loads |-> 0,
          message |-> "none"]

\* load_model: nothing when the name is the current one; otherwise load,
\* and only after a successful load assign model and current_model_name
load_model(name, m, cur_name) ==
    IF name /= cur_name
    THEN IF name \in KnownModels
         THEN [ok |-> TRUE, model |-> name, name |-> name, loads |-> 1,
               message |-> "none"]
         ELSE [ok |-> FALSE, model |-> m, name |-> cur_name, loads |-> 1,
               message |-> "load failed"]
    ELSE [ok |-> TRUE, model |-> m, name |-> cur_name, loads |-> 0,
          message |-> "none"]

\* transcribe: the engine's result on the current model, or RuntimeError
transcribe(asr, m) ==
    IF asr = "fail"
    THEN [ok |-> FALSE, text |-> "none", used |-> m,
          message |-> "Transcription failed"]
    ELSE [ok |-> TRUE, text |-> asr, used |-> m, message |-> "none"]

\* ------------------------------------------------------- AudioProcessor
\* cleanup: every file named in the shared _temp_files list is unlinked,
\* the temp_input of each request suspended in file.read() included
cleanup(h) ==
    [t \in DOMAIN h |-> IF h[t] = "reading" THEN "unlinked" ELSE h[t]]

\* what ffmpeg finds at the input path
ffmpeg_input(kind, state) == IF state = "unlinked" THEN "missing" ELSE kind

\* _process_audio_file: ffmpeg.Error becomes HTTPException(400)
process_audio_file(kind) ==
    IF kind \in {"unsupported", "missing"}
    THEN [ok |-> FALSE, status |-> 400,
          message |-> "Audio format not supported"]
    ELSE [ok |-> TRUE, status |-> 0, message |-> "none"]

\* process_audio / process_audio_bytes: every exception of the body,
\* the HTTPException(400) included, is re-raised as HTTPException(500)
process_audio(kind) ==
    LET r == process_audio_file(kind)
    IN  IF r.ok THEN r
        ELSE [ok |-> FALSE, status |-> 500, message |-> r.message]

\* ------------------------------------------------------------ /transcribe
\* the except clause of transcribe_audio: whatever was raised, answer 500
TranscribeFailure(msg) ==
    [status |-> 500, error |-> "stt-stream-failed", message |-> msg]

\* what is kept of an answered /transcribe request: the response, whether
\* check_resources admitted it, whether it still holds its ticket, the
\* normaliser and engine calls made for it, the X-Model value tested at
\* line 95 ("none" also when the request did not get that far) and the
\* whisper.load_model calls made for it
Answered(resp, adm, norm, asr, xm, loads) ==
    [status |-> resp.status, error |-> resp.error,
     message |-> resp.message, admitted |-> adm, ticket |-> adm,
     norm_calls |-> norm, asr_calls |-> asr, x_model |-> xm,
     loads |-> loads]

\* transcribe_audio up to the await of file.read() inside process_audio
TranscribeRequest(t, mem) ==
    /\ http[t] = "idle"
    /\ LET r == check_resources(mem, current_requests)
       IN  /\ Checked(mem, r)
           /\ IF r.ok
              THEN /\ http' = [http EXCEPT ![t] = "reading"]
                   /\ UNCHANGED last_response
              ELSE /\ UNCHANGED http
                   /\ last_response' =
                         Answered(TranscribeFailure(r.message), FALSE, 0, 0,
                                  "none", 0)
    /\ UNCHANGED <<model, current_model_name, audio_processor_attrs, ws, wy>>

\* transcribe_audio from the return of file.read() to the response; kind
\* is what the upload holds, xm the X-Model header of the request
TranscribeFinish(t, kind, xm, asr) ==
    /\ http[t] \in {"reading", "unlinked"}
    /\ LET pa == process_audio(ffmpeg_input(kind, http[t]))
           lm == IF pa.ok /\ xm /= "none" /\ xm /= current_model_name
                 THEN load_model(xm, model, current_model_name)
                 ELSE [ok |-> TRUE, model |-> model,
                       name |-> current_model_name, loads |-> 0,
                       message |-> "none"]
           tr == transcribe(asr, lm.model)
           called == pa.ok /\ lm.ok
           resp == IF ~pa.ok THEN TranscribeFailure(pa.message)
                   ELSE IF ~lm.ok THEN TranscribeFailure(lm.message)
                   ELSE IF ~tr.ok THEN TranscribeFailure(tr.message)
                   ELSE [status |-> 200, error |-> "none", message |-> tr.text]
       IN  /\ http' = [cleanup(http) EXCEPT
                          ![t] = IF resp.status = 200 THEN "cleanup"
                                 ELSE "idle"]
           /\ last_response' =
                 Answered(resp, TRUE, 1, IF called THEN 1 ELSE 0,
                          IF pa.ok THEN xm ELSE "none", lm.loads)
           /\ model' = lm.model
           /\ current_model_name' = lm.name
    /\ UNCHANGED <<current_requests, audio_processor_attrs, ws, wy,
                   last_check, n_checks>>

\* the task added at line 105 runs once the response has been sent
BackgroundCleanup(t) ==
    /\ http[t] = "cleanup"
    /\ http' = [cleanup(http) EXCEPT ![t] = "idle"]
    /\ UNCHANGED <<current_requests, model, current_model_name,
                   audio_processor_attrs, last_response, ws, wy,
                   last_check, n_checks>>

\* ---------------------------------------------------------------- /stream
\* stream_audio: admission, optional model switch; the answer (the
\* negotiated format, or status 500 from the except clause) is returned
\* to the client and leaves no state behind
StreamNegotiate(mem, xm) ==
    LET r == check_resources(mem, current_requests)
        lm == IF r.ok /\ xm /= "none" /\ xm /= current_model_name
              THEN load_model(xm, model, current_model_name)
              ELSE [ok |-> TRUE, model |-> model, name |-> current_model_name,
                    loads |-> 0, message |-> "none"]
    IN  /\ Checked(mem, r)
        /\ model' = lm.model
        /\ current_model_name' = lm.name
        /\ UNCHANGED <<audio_processor_attrs, http, last_response, ws, wy>>

\* ----------------------------------------------------- WebSocket session
\* the locals of websocket_endpoint, and what the session did so far:
\* received counts the audio bytes of the frames read, silent says whether
\* the gate classified one of them as silence; last is the frame read
\* last: its length and energy, vad_active and the buffer before it, the
\* buffer after lines 200-208, whether the buffer was handed to the
\* transcriber and in how many calls, the events sent while handling it
WsIdle ==
    [pc |-> "idle", audio_buffer |-> 0, vad_active |-> FALSE, sent |-> <<>>,
     result |-> "unbound", frames |-> 0, asr_calls |-> 0, admitted |-> FALSE,
     received |-> 0, silent |-> FALSE,
     last |-> [kind |-> "none", len |-> 0, energy |-> 0, vad_before |-> FALSE,
               before |-> 0, buffered |-> 0, flushed |-> FALSE, calls |-> 0,
               emitted |-> <<>>]]

\* VoiceActivityGate of the specification (section 4.2): mean absolute
\* sample value over 32768 above 0.001
detect_speech(chunk) == chunk.energy * 1000 > 32768

\* bytes of buffered audio at which the receive loop transcribes
FlushThreshold == sample_rate * 2

opening_event_swapped(pc) ==
    IF pc = "run_start" THEN "stt-start" ELSE "run-start"

\* the two events websocket_endpoint sends after accept()
opening_event(pc) == IF pc = "run_start" THEN "run-start" ELSE "stt-start"

is_end_marker_empty(chunk) == chunk.len = 0

\* if len(chunk) == 1: the frame is the end-of-stream marker
is_end_marker(chunk) == chunk.len = 1

WsFinally_without_release == UNCHANGED current_requests

\* the finally clause of websocket_endpoint
WsFinally ==
    current_requests' = release_resources(current_requests)

\* websocket_endpoint returns: its local audio_buffer ceases to exist
WsReturned(w) == [w EXCEPT !.pc = "done", !.audio_buffer = 0]

\* await websocket.accept()
WSAccept(s) ==
    /\ ws[s].pc = "idle"
    /\ ws' = [ws EXCEPT ![s] = [@ EXCEPT !.pc = "run_start"]]
    /\ UNCHANGED <<current_requests, model, current_model_name,
                   audio_processor_attrs, http, last_response, wy, last_check, n_checks>>

\* await websocket.send_json(run-start), then send_json(stt-start)
WSSendOpening(s) ==
    /\ ws[s].pc \in {"run_start", "stt_start"}
    /\ ws' = [ws EXCEPT ![s] =
          [@ EXCEPT !.sent = Append(@, opening_event(ws[s].pc)),
                    !.pc = IF ws[s].pc = "run_start" THEN "stt_start"
                           ELSE "receive"]]
    /\ UNCHANGED <<current_requests, model, current_model_name,
                   audio_processor_attrs, http, last_response, wy, last_check, n_checks>>

\* the client goes away: the pending send or receive raises, nothing more
\* can be sent, the finally clause runs
WSDisconnect(s) ==
    /\ ws[s].pc \in {"run_start", "stt_start", "receive"}
    /\ ws' = [ws EXCEPT ![s] = WsReturned(@)]
    /\ WsFinally
    /\ UNCHANGED <<model, current_model_name, audio_processor_attrs, http, last_response, wy,
                   last_check, n_checks>>

loop_except_events_twice ==
    <<"error:stt-stream-failed", "error:stt-stream-failed">>

\* the except clause inside the loop (lines 240-246): one error event;
\* the loop then goes on
loop_except_events == <<"error:stt-stream-failed">>

\* one frame that is not the end marker: lines 207-246, then back to
\* receive_bytes; an exception leaves through lines 278-290
WsChunk(w, chunk, asr) ==
    LET buf == w.audio_buffer + (chunk.len - 1)
        base == [w EXCEPT !.frames = @ + 1, !.audio_buffer = buf,
                          !.received = @ + (chunk.len - 1)]
        lst == [kind |-> "chunk", len |-> chunk.len, energy |-> chunk.energy,
                vad_before |-> w.vad_active, before |-> w.audio_buffer,
                buffered |-> buf,
                flushed |-> FALSE, calls |-> 0, emitted |-> <<>>]
    IN  IF "detect_speech" \notin audio_processor_attrs
        THEN \* AttributeError at line 211 or 216
             [base EXCEPT !.pc = "done",
                          !.sent = Append(@, "error:stt-stream-failed"),
                          !.last = [lst EXCEPT !.emitted =
                                       <<"error:stt-stream-failed">>]]
        ELSE LET sp == detect_speech(chunk)
                 vad == IF ~w.vad_active /\ sp THEN TRUE
                        ELSE IF w.vad_active /\ ~sp THEN FALSE
                        ELSE w.vad_active
                 ev1 == IF ~w.vad_active /\ sp THEN <<"stt-vad-start">>
                        ELSE IF w.vad_active /\ ~sp THEN <<"stt-vad-end">>
                        ELSE <<>>
                 flush == buf >= FlushThreshold /\ vad
                 tr == transcribe(asr, model)
                 ev2 == IF ~flush THEN <<>>
                        ELSE IF ~tr.ok THEN loop_except_events
                        ELSE IF tr.text = "text" THEN <<"stt-end">>
                        ELSE <<>>
             IN  [base EXCEPT
                    !.vad_active = vad,
                    !.silent = @ \/ ~sp,
                    !.sent = @ \o ev1 \o ev2,
                    !.asr_calls = IF flush THEN @ + 1 ELSE @,
                    !.result = IF flush /\ tr.ok THEN tr.text ELSE @,
                    !.audio_buffer = IF flush /\ tr.ok THEN 0 ELSE buf,
                    !.last = [lst EXCEPT !.flushed = flush,
                                         !.calls = IF flush THEN 1 ELSE 0,
                                         !.emitted = ev1 \o ev2]]

flush_at_end_if_vad(w) == w.audio_buffer > 0 /\ w.vad_active

\* if audio_buffer: (line 249) after the loop
flush_at_end(w) == w.audio_buffer > 0

\* the end marker: break, lines 248-274, then the finally clause
WsEnd(w, asr) ==
    LET has == flush_at_end(w)
        tr == transcribe(asr, model)
        res == IF has /\ tr.ok THEN tr.text ELSE w.result
        ev1 == IF ~has THEN <<>>
               ELSE IF ~tr.ok THEN <<"error:stt-stream-failed">>
               ELSE IF tr.text = "text" THEN <<"stt-end">>
               ELSE <<>>
        \* line 269 reads result, which is unbound when no call returned
        ev2 == IF ~has THEN <<"error:stt-no-text-recognized">>
               ELSE IF res = "unbound" THEN <<"error:stt-stream-failed">>
               ELSE IF res = "empty" THEN <<"error:stt-no-text-recognized">>
               ELSE <<>>
    IN  [w EXCEPT !.pc = "done", !.frames = @ + 1,
                  !.sent = @ \o ev1 \o ev2,
                  !.asr_calls = IF has THEN @ + 1 ELSE @,
                  !.result = res,
                  !.last = [kind |-> "end", len |-> 1, energy |-> 0,
                            vad_before |-> w.vad_active,
                            before |-> w.audio_buffer,
                            buffered |-> w.audio_buffer, flushed |-> has,
                            calls |-> IF has THEN 1 ELSE 0,
                            emitted |-> ev1 \o ev2]]

\* chunk = await websocket.receive_bytes() and everything up to the next
\* suspension of the handler
WSReceive(s, chunk, asr) ==
    /\ ws[s].pc = "receive"
    /\ ws[s].frames < MaxFrames
    /\ LET w2 == IF is_end_marker(chunk) THEN WsEnd(ws[s], asr)
                 ELSE WsChunk(ws[s], chunk, asr)
       IN  IF w2.pc = "done"
           THEN ws' = [ws EXCEPT ![s] = WsReturned(w2)] /\ WsFinally
           ELSE ws' = [ws EXCEPT ![s] = w2] /\ UNCHANGED current_requests
    /\ UNCHANGED <<model, current_model_name, audio_processor_attrs, http, last_response, wy,
                   last_check, n_checks>>

\* ------------------------------------------------- device-protocol server
\* payload sizes of AudioChunk events
WyChunkLen == 640
WyChunkLens == {0, WyChunkLen}

\* an event written to the client: its type and the text or message in it
WyEvent(type, text) == [type |-> type, text |-> text]

\* the types of a sequence of written events
WyTypes(out) == [i \in DOMAIN out |-> out[i].type]

\* out: the events written for the request being handled, or for the
\* last one handled, and used: the model its transcription ran on ("none":
\* no transcription); held: tickets its requests acquired and kept; of the
\* request being handled, requested: the model name of the Transcribe
\* event as tested at line 77 ("none" also when the request did not get
\* that far), and loads: the whisper.load_model calls made for it
WyIdle ==
    [pc |-> "idle", audio_started |-> FALSE, audio_buffer |-> 0,
     out |-> <<>>, held |-> 0, requested |-> "none", loads |-> 0,
     used |-> "none"]

\* a client connects and handle_client starts iterating its events
WyConnect(c) ==
    /\ wy[c].pc = "idle"
    /\ wy' = [wy EXCEPT ![c] = [@ EXCEPT !.pc = "loop"]]
    /\ UNCHANGED <<current_requests, model, current_model_name,
                   audio_processor_attrs, http, last_response, ws, last_check, n_checks>>

\* what the Info answer is built from: AsrInfo(models=..., languages=...)
InfoAdvertised == "models, languages"

\* Info event: the answer reads transcriber.supported_models; without
\* that attribute the AttributeError leaves the event loop (line 93)
WyInfo(c) ==
    /\ wy[c].pc = "loop"
    /\ wy' = [wy EXCEPT ![c] =
          IF "supported_models" \in TranscriberAttrs
          THEN [@ EXCEPT !.out = <<WyEvent("info", InfoAdvertised)>>]
          ELSE [@ EXCEPT !.out = <<WyEvent("error:client_error",
                                           "AttributeError")>>,
                         !.pc = "closed"]]
    /\ UNCHANGED <<current_requests, model, current_model_name,
                   audio_processor_attrs, http, last_response, ws, last_check, n_checks>>

\* Transcribe event up to the first read of _process_audio_stream
WyTranscribe(c, mem, xm) ==
    /\ wy[c].pc = "loop"
    /\ LET r == check_resources(mem, current_requests)
           lm == IF r.ok /\ xm /= "none"
                 THEN load_model(xm, model, current_model_name)
                 ELSE [ok |-> TRUE, model |-> model,
                       name |-> current_model_name, loads |-> 0,
                       message |-> "none"]
           req == [wy[c] EXCEPT !.used = "none",
                                !.requested = IF r.ok THEN xm ELSE "none",
                                !.loads = lm.loads,
                                !.held = IF r.ok THEN @ + 1 ELSE @]
       IN  /\ Checked(mem, r)
           /\ model' = lm.model
           /\ current_model_name' = lm.name
           /\ wy' = [wy EXCEPT ![c] =
                 IF r.ok /\ lm.ok
                 THEN [req EXCEPT !.pc = "audio", !.audio_started = FALSE,
                                  !.audio_buffer = 0, !.out = <<>>]
                 ELSE [req EXCEPT !.out =
                          <<WyEvent("error:transcription_error",
                                    IF r.ok THEN lm.message
                                    ELSE r.message)>>]]
    /\ UNCHANGED <<audio_processor_attrs, http, last_response, ws>>

transcribe_response_unless_failed(has, pa, tr) ==
    IF has /\ pa.ok /\ tr.ok THEN <<WyEvent("transcript", tr.text)>>
    ELSE <<>>

\* lines 80-91: what the Transcribe branch writes once the audio has been
\* read: nothing without audio, else the transcript or one Error event
transcribe_response(has, pa, tr) ==
    IF ~has THEN <<>>
    ELSE IF ~pa.ok
    THEN <<WyEvent("error:transcription_error", pa.message)>>
    ELSE IF ~tr.ok
    THEN <<WyEvent("error:transcription_error", tr.message)>>
    ELSE <<WyEvent("transcript", tr.text)>>

\* the end of _process_audio_stream and the rest of the Transcribe branch;
\* deliver says whether the client is still there to be written to
WyFinishRequest(w, kind, asr, deliver) ==
    LET has == w.audio_buffer > 0
        pa == process_audio(kind)
        tr == transcribe(asr, model)
        ev == transcribe_response(has, pa, tr)
    IN  [w EXCEPT !.pc = IF deliver THEN "loop" ELSE "closed",
                  !.audio_started = FALSE, !.audio_buffer = 0,
                  !.requested = "none", !.loads = 0,
                  !.out = IF deliver THEN @ \o ev ELSE @,
                  !.used = IF has /\ pa.ok THEN tr.used ELSE @]

\* _process_audio_stream reads AudioStart
WyAudioStart(c) ==
    /\ wy[c].pc = "audio"
    /\ wy' = [wy EXCEPT ![c] = [@ EXCEPT !.audio_started = TRUE]]
    /\ UNCHANGED <<current_requests, model, current_model_name,
                   audio_processor_attrs, http, last_response, ws,
                   last_check, n_checks>>

\* _process_audio_stream reads AudioChunk with n bytes of audio
WyAudioChunk(c, n) ==
    /\ wy[c].pc = "audio"
    /\ wy[c].audio_buffer + n <= MaxWyChunks * WyChunkLen
    /\ wy' = [wy EXCEPT ![c] =
          [@ EXCEPT !.audio_buffer =
                        IF wy[c].audio_started THEN @ + n ELSE @]]
    /\ UNCHANGED <<current_requests, model, current_model_name,
                   audio_processor_attrs, http, last_response, ws,
                   last_check, n_checks>>

\* _process_audio_stream reads AudioStop
WyAudioStop(c, kind, asr) ==
    /\ wy[c].pc = "audio"
    /\ wy' = [wy EXCEPT ![c] = WyFinishRequest(wy[c], kind, asr, TRUE)]
    /\ http' = IF wy[c].audio_buffer > 0 THEN cleanup(http) ELSE http
    /\ UNCHANGED <<current_requests, model, current_model_name,
                   audio_processor_attrs, last_response, ws,
                   last_check, n_checks>>

\* _process_audio_stream reads an Error event sent by the client
WyClientError(c) ==
    /\ wy[c].pc = "audio"
    /\ wy' = [wy EXCEPT ![c] =
          [@ EXCEPT !.pc = "loop", !.audio_started = FALSE,
                    !.audio_buffer = 0, !.requested = "none", !.loads = 0,
                    !.out = Append(@, WyEvent("error:transcription_error",
                                              "client error"))]]
    /\ UNCHANGED <<current_requests, model, current_model_name,
                   audio_processor_attrs, http, last_response, ws,
                   last_check, n_checks>>

\* the client closes the connection: the event iteration in progress ends
WyDisconnect(c, kind, asr) ==
    /\ wy[c].pc \in {"loop", "audio"}
    /\ wy' = [wy EXCEPT ![c] =
          IF wy[c].pc = "loop" THEN [@ EXCEPT !.pc = "closed"]
          ELSE WyFinishRequest(wy[c], kind, asr, FALSE)]
    /\ http' = IF wy[c].pc = "audio" /\ wy[c].audio_buffer > 0
               THEN cleanup(http) ELSE http
    /\ UNCHANGED <<current_requests, model, current_model_name,
                   audio_processor_attrs, last_response, ws, last_check,
                   n_checks>>

\* ---------------------------------------------------------- specification
InitCommon ==
    /\ current_requests = 0
    /\ model = StartupModel
    /\ current_model_name = StartupModel
    /\ http = [t \in HttpIds |-> "idle"]
    /\ last_response =
          [status |-> 0, error |-> "none", message |-> "none",
           admitted |-> FALSE, ticket |-> FALSE, norm_calls |-> 0,
           asr_calls |-> 0, x_model |-> "none", loads |-> 0]
    /\ ws = [s \in WsIds |-> WsIdle]
    /\ wy = [c \in WyIds |-> WyIdle]
    /\ last_check = [mem |-> 0, before |-> 0,
                     res |-> [ok |-> TRUE, status |-> 0, message |-> "none",
                              cur |-> 0]]
    /\ n_checks = 0

\* the program as constructed: audio_processor = AudioProcessor()
Init ==
    /\ InitCommon
    /\ audio_processor_attrs = AudioProcessorMethods

\* the program with the voice-activity gate of the specification supplied
InitVAD ==
    /\ InitCommon
    /\ audio_processor_attrs = AudioProcessorMethods \cup {"detect_speech"}

Next ==
    \/ \E t \in HttpIds, mem \in MemSnapshots : TranscribeRequest(t, mem)
    \/ \E t \in HttpIds, u \in Utterances, xm \in ModelArgs :
          TranscribeFinish(t, u.kind, xm, u.asr)
    \/ \E t \in HttpIds : BackgroundCleanup(t)
    \/ \E mem \in MemSnapshots, xm \in ModelArgs : StreamNegotiate(mem, xm)
    \/ \E s \in WsIds : WSAccept(s)
    \/ \E s \in WsIds : WSSendOpening(s)
    \/ \E s \in WsIds, chunk \in Chunks, asr \in AsrOutcomes :
          WSReceive(s, chunk, asr)
    \/ \E s \in WsIds : WSDisconnect(s)
    \/ \E c \in WyIds : WyConnect(c)
    \/ \E c \in WyIds : WyInfo(c)
    \/ \E c \in WyIds, mem \in MemSnapshots, xm \in ModelArgs :
          WyTranscribe(c, mem, xm)
    \/ \E c \in WyIds : WyAudioStart(c)
    \/ \E c \in WyIds, n \in WyChunkLens : WyAudioChunk(c, n)
    \/ \E c \in WyIds, u \in Utterances : WyAudioStop(c, u.kind, u.asr)
    \/ \E c \in WyIds : WyClientError(c)
    \/ \E c \in WyIds, u \in Utterances : WyDisconnect(c, u.kind, u.asr)

\* the whole program as shipped
Spec == Init /\ [][Next]_vars

\* the streaming path alone (negotiation and WebSocket sessions), with the
\* gate supplied: a WebSocket session reads nothing the other handlers
\* write except the loaded model and the admission counter
NextStream ==
    \/ \E mem \in MemSnapshots, xm \in ModelArgs : StreamNegotiate(mem, xm)
    \/ \E s \in WsIds : WSAccept(s)
    \/ \E s \in WsIds : WSSendOpening(s)
    \/ \E s \in WsIds, chunk \in Chunks, asr \in AsrOutcomes :
          WSReceive(s, chunk, asr)
    \/ \E s \in WsIds : WSDisconnect(s)

SpecVAD == InitVAD /\ [][NextStream]_vars

\* WebSocket sessions and device connections side by side, with the gate
\* supplied and no HTTP request
NextSessions ==
    \/ \E s \in WsIds : WSAccept(s)
    \/ \E s \in WsIds : WSSendOpening(s)
    \/ \E s \in WsIds, chunk \in Chunks, asr \in AsrOutcomes :
          WSReceive(s, chunk, asr)
    \/ \E s \in WsIds : WSDisconnect(s)
    \/ \E c \in WyIds : WyConnect(c)
    \/ \E c \in WyIds : WyInfo(c)
    \/ \E c \in WyIds, mem \in MemSnapshots, xm \in ModelArgs :
          WyTranscribe(c, mem, xm)
    \/ \E c \in WyIds : WyAudioStart(c)
    \/ \E c \in WyIds, n \in WyChunkLens : WyAudioChunk(c, n)
    \/ \E c \in WyIds, u \in Utterances : WyAudioStop(c, u.kind, u.asr)
    \/ \E c \in WyIds : WyClientError(c)
    \/ \E c \in WyIds, u \in Utterances : WyDisconnect(c, u.kind, u.asr)

SpecSessions == InitVAD /\ [][NextSessions]_vars

\* ------------------------------------------------------------ claims
\* sessions check_resources admitted and that have not yet terminated
ActiveAdmitted ==
    Cardinality({t \in HttpIds : http[t] \in {"reading", "unlinked"}})
    + Cardinality({c \in WyIds : wy[c].pc = "audio"})
    + Cardinality({s \in WsIds : ws[s].admitted
                                  /\ ws[s].pc \notin {"idle", "done"}})

\* C1: in every reachable state the number of admitted sessions that have
\* not yet terminated is at most max_concurrent.
C1_ActiveWithinCap == ActiveAdmitted <= max_concurrent

\* C2: a session that has terminated holds no admission ticket (an answered
\* /transcribe request, a device connection with no Transcribe request in
\* progress), and release_resources is performed only by a session that
\* holds a ticket (a WebSocket session that has run its finally clause was
\* admitted).
C2_TicketReleasedExactlyOnce ==
    /\ last_response.admitted => ~last_response.ticket
    /\ \A c \in WyIds : wy[c].pc \in {"loop", "closed"} => wy[c].held = 0
    /\ \A s \in WsIds : ws[s].pc = "done" => ws[s].admitted

\* C3: an acquire call with memory within its limit succeeds exactly while
\* fewer than max_concurrent tickets are out, so that of N such calls
\* min(N, C) succeed; and once every session that acquired has ended the
\* counter is back at its baseline, the value 0 it had before any
\* acquisition (stated for the moments after an admitted /transcribe
\* request has been answered).
C3_MinAdmittedAndBaseline ==
    /\ n_checks > 0 /\ last_check.mem <= max_memory =>
          (last_check.res.ok <=> last_check.before < max_concurrent)
    /\ last_response.admitted /\ ActiveAdmitted = 0 => current_requests = 0

\* C4: check_resources rejects as overloaded when the memory snapshot
\* exceeds max_memory, whatever the counter; rejects for too many requests
\* when memory is within the cap and the counter is at max_concurrent or
\* above; otherwise adds exactly one to the counter; a rejection leaves the
\* counter as it was.
C4_CheckResourcesOutcome ==
    n_checks > 0 =>
        LET c == last_check
        IN  /\ c.mem > max_memory =>
                  /\ ~c.res.ok
                  /\ c.res.message = "Server is overloaded"
                  /\ c.res.cur = c.before
            /\ c.mem <= max_memory /\ c.before >= max_concurrent =>
                  /\ ~c.res.ok
                  /\ c.res.message = "Too many concurrent requests"
                  /\ c.res.cur = c.before
            /\ c.mem <= max_memory /\ c.before < max_concurrent =>
                  /\ c.res.ok
                  /\ c.res.cur = c.before + 1

\* C4 witness: a call made with memory above the limit while the counter
\* was at the cap, rejected as overloaded
C4_Witness ==
    /\ n_checks > 0
    /\ last_check.mem > max_memory
    /\ last_check.before >= max_concurrent
    /\ last_check.res.message = "Server is overloaded"

\* C5: a /transcribe request refused because max_concurrent sessions are
\* already admitted is answered with status 503, and neither the
\* normaliser nor the engine is called for it.
C5_RefusedAnswered503 ==
    last_response.message = "Too many concurrent requests" =>
        /\ last_response.status = 503
        /\ last_response.norm_calls = 0
        /\ last_response.asr_calls = 0

\* C6: a /transcribe request whose audio the normaliser rejects as
\* unsupported is answered with status 400, and the engine is not called
\* for it.
C6_UnsupportedAnswered400 ==
    last_response.message = "Audio format not supported" =>
        /\ last_response.status = 400
        /\ last_response.asr_calls = 0

\* C7: a WebSocket session that has buffered an audio chunk or made a
\* transcription call acquired an admission ticket before.
C7_WsAdmittedBeforeWork ==
    \A s \in WsIds :
        ws[s].last.kind = "chunk" \/ ws[s].asr_calls > 0 => ws[s].admitted

\* C8: on an accepted WebSocket connection the first event sent is
\* run-start and the second is stt-start, and both have been sent before a
\* frame is read or any other event is sent.
C8_OpeningEventsFirst ==
    \A s \in WsIds :
        LET w == ws[s]
        IN  /\ Len(w.sent) >= 1 => w.sent[1] = "run-start"
            /\ Len(w.sent) >= 2 => w.sent[2] = "stt-start"
            /\ w.frames > 0 \/ w.pc = "receive" => Len(w.sent) >= 2

\* C8 witness: a session that has read a frame and sent a third event
C8_Witness ==
    \E s \in WsIds : ws[s].frames > 0 /\ Len(ws[s].sent) >= 3

IsVadEvent(e) == e \in {"stt-vad-start", "stt-vad-end"}

\* the VAD events of a session, in the order sent
VadEvents(s) == SelectSeq(ws[s].sent, IsVadEvent)

\* C9: a chunk that is speech while vad_active is false makes the session
\* send vad-start, a chunk that is silence while vad_active is true makes
\* it send vad-end, a chunk whose classification equals the state makes it
\* send neither; the VAD events of a session alternate, vad-start first.
C9_VadEdgeTriggered ==
    \A s \in WsIds :
        LET l == ws[s].last
            sp == detect_speech([len |-> l.len, energy |-> l.energy])
            ev == SelectSeq(l.emitted, IsVadEvent)
        IN  /\ l.kind = "chunk" =>
                  /\ sp /\ ~l.vad_before => ev = <<"stt-vad-start">>
                  /\ ~sp /\ l.vad_before => ev = <<"stt-vad-end">>
                  /\ sp = l.vad_before => ev = <<>>
            /\ \A i \in 1..Len(VadEvents(s)) :
                  VadEvents(s)[i] = IF i % 2 = 1 THEN "stt-vad-start"
                                    ELSE "stt-vad-end"

\* two seconds of 16-bit mono audio, in bytes
TwoSeconds == sample_rate * 2 * 2

\* C10: before the end marker, the session hands its buffer to the
\* transcriber after a chunk if and only if the buffer then holds at least
\* two seconds of audio (64000 bytes) and VAD is active.
C10_FlushAtTwoSeconds ==
    \A s \in WsIds :
        ws[s].last.kind = "chunk" =>
            (ws[s].last.flushed <=>
                ws[s].last.buffered >= TwoSeconds /\ ws[s].vad_active)

\* the 2.5 seconds of tone of the streaming scenario, in bytes
ToneBytes == (sample_rate * 2 * 5) \div 2

IsResult(e) == e = "stt-end"

\* the recognition results of a session, in the order sent
Results(s) == SelectSeq(ws[s].sent, IsResult)

\* C11: while a session that has received at most 2.5 seconds of audio,
\* every chunk of it above the threshold, is still reading frames (the end
\* marker has not come): every recognition result it sent was preceded by
\* vad-start; it has called the transcriber once if 2 seconds of audio
\* (64000 bytes) have accumulated and not at all before that; it has sent at
\* most one recognition result, and so the audio past the 2 seconds is only
\* buffered.
C11_ToneOneResultAtTwoSeconds ==
    \A s \in WsIds :
        LET w == ws[s]
        IN  w.pc = "receive" /\ ~w.silent /\ w.received <= ToneBytes =>
                /\ \A i \in 1..Len(w.sent) :
                      w.sent[i] = "stt-end" =>
                          \E j \in 1..(i - 1) : w.sent[j] = "stt-vad-start"
                /\ w.asr_calls = IF w.received >= TwoSeconds THEN 1 ELSE 0
                /\ Len(Results(s)) <= 1

\* C12: a frame of length 1 ends the receive loop (the session reads no
\* further frame) and nothing of it is appended: the audio buffer after the
\* frame has been taken in is the buffer before it.
C12_EndMarkerNotBuffered ==
    \A s \in WsIds :
        ws[s].last.len = 1 =>
            /\ ws[s].last.kind = "end"
            /\ ws[s].pc = "done"
            /\ ws[s].last.buffered = ws[s].last.before

\* C12 witness: the end marker read by a session that had audio buffered
C12_Witness ==
    \E s \in WsIds : ws[s].last.kind = "end" /\ ws[s].last.before > 0

\* C13: when the end marker has been read, the audio that was in the buffer
\* has been handed to the transcriber in exactly one call, whether or not
\* VAD was active, no call has been made if the buffer was empty, and the
\* session has ended: it reads no further frame.
C13_FinalFlushOnce ==
    \A s \in WsIds :
        ws[s].last.kind = "end" =>
            /\ ws[s].last.calls = IF ws[s].last.before > 0 THEN 1 ELSE 0
            /\ ws[s].last.flushed <=> ws[s].last.before > 0
            /\ ws[s].pc = "done"

\* C13 witness: audio buffered while VAD was inactive, transcribed at the
\* end marker
C13_Witness ==
    \E s \in WsIds :
        /\ ws[s].last.kind = "end"
        /\ ws[s].last.before > 0
        /\ ~ws[s].last.vad_before
        /\ ws[s].last.calls = 1

IsNotice(e) == e = "error:stt-no-text-recognized"

\* C14: when a session has read the end marker, it has sent the 'no speech
\* detected' notice (stt-no-text-recognized) if and only if it has sent no
\* recognition result, neither for a flush made inside the loop nor for the
\* one made at the end marker (a recognition result is sent only for text
\* that is not empty).
C14_NoSpeechNotice ==
    \A s \in WsIds :
        ws[s].last.kind = "end" =>
            (SelectSeq(ws[s].last.emitted, IsNotice) /= <<>>
                <=> Results(s) = <<>>)

IsError(e) == e \in {"error:stt-stream-failed", "error:stt-no-text-recognized"}

\* a WebSocket session whose last frame was a chunk that made the loop call
\* the transcriber, and the call failed
WsLoopFailure(s) ==
    /\ ws[s].last.kind = "chunk"
    /\ ws[s].last.flushed
    /\ SelectSeq(ws[s].last.emitted, IsError) /= <<>>

\* a step in which a WebSocket session reads such a chunk
WsFailureStep(s) ==
    /\ ws'[s].frames = ws[s].frames + 1
    /\ WsLoopFailure(s)'

\* a step in which the transcription of a device request's audio is asked
\* of the engine and no transcript is written
WyFailureStep(c) ==
    /\ wy[c].pc = "audio"
    /\ wy'[c].used /= "none"
    /\ WyTypes(wy'[c].out) /= <<"transcript">>

\* C15: a transcription that fails inside the receive loop of a WebSocket
\* session makes it send exactly one error event (code stt-stream-failed,
\* with a message), and the session is still reading frames afterwards; a
\* transcription that fails for a device-protocol request makes the
\* connection write exactly one error event (code transcription_error, with
\* a message) and go back to its event loop, where later Transcribe
\* requests are handled, unless the client has gone, in which case nothing
\* is written.
C15_FailureKeepsSession ==
    /\ [][\A s \in WsIds :
            WsFailureStep(s) =>
                /\ Len(SelectSeq(ws'[s].last.emitted, IsError)) = 1
                /\ ws'[s].pc = "receive"]_vars
    /\ [][\A c \in WyIds :
            WyFailureStep(c) =>
                \/ wy'[c].pc = "closed" /\ wy'[c].out = <<>>
                \/ /\ wy'[c].pc = "loop"
                   /\ WyTypes(wy'[c].out) = <<"error:transcription_error">>
                   /\ wy'[c].out[1].text = "Transcription failed"]_vars

\* C15 witness: a WebSocket session still reading after a failed flush and a
\* device connection back in its event loop after a failed transcription
C15_Witness ==
    \E s \in WsIds, c \in WyIds :
        /\ WsLoopFailure(s)
        /\ ws[s].pc = "receive"
        /\ wy[c].pc = "loop"
        /\ wy[c].used /= "none"
        /\ wy[c].out =
              <<WyEvent("error:transcription_error", "Transcription failed")>>

\* C16: a WebSocket session that has terminated (after the end marker, a
\* disconnect or an error) called release_resources as it terminated, holds
\* no buffered audio any more, and sends no event and reads no frame
\* afterwards.
C16_TerminalReleasesAndStops ==
    /\ [](\A s \in WsIds : ws[s].pc = "done" => ws[s].audio_buffer = 0)
    /\ [][\A s \in WsIds :
            /\ ws[s].pc /= "done" /\ ws'[s].pc = "done" =>
                  current_requests' = release_resources(current_requests)
            /\ ws[s].pc = "done" => ws'[s] = ws[s]]_vars

\* C16 witness: a session that ended with an error event after a first
\* audio frame, and whose release took the counter from 1 back to 0
C16_Witness ==
    \E s \in WsIds :
        /\ ws[s].pc = "done"
        /\ ws[s].received > 0
        /\ ws[s].sent[Len(ws[s].sent)] = "error:stt-stream-failed"
        /\ n_checks = 1
        /\ last_check.res.ok
        /\ current_requests = 0

\* a step in which /transcribe request t is answered
TranscribeAnswerStep(t) ==
    http[t] \in {"reading", "unlinked"} /\ http'[t] \in {"idle", "cleanup"}

\* a step in which connection c handles a Transcribe event
WyTranscribeStep(c) ==
    /\ wy[c].pc = "loop"
    /\ n_checks' = n_checks + 1
    /\ wy'[c] /= wy[c]

\* whether override xm names another model than the one loaded
Differs(xm) == xm /= "none" /\ xm /= current_model_name

\* C17: for a /transcribe request that reaches the model test and for an
\* admitted device-protocol Transcribe request: if the override names
\* another model than the one loaded, whisper.load_model is called exactly
\* once, and it has put the requested model in place before the request's
\* transcription call is made; if the override names the loaded model or
\* there is none, load_model is not called.
C17_OneLoadBeforeTranscription ==
    [][/\ \A t \in HttpIds :
            TranscribeAnswerStep(t) =>
                LET xm == last_response'.x_model
                IN  /\ last_response'.loads = IF Differs(xm) THEN 1 ELSE 0
                    /\ Differs(xm) /\ last_response'.asr_calls = 1 =>
                          model' = xm /\ current_model_name' = xm
       /\ \A c \in WyIds :
            WyTranscribeStep(c) =>
                LET xm == wy'[c].requested
                IN  /\ wy'[c].loads = IF Differs(xm) THEN 1 ELSE 0
                    /\ wy'[c].used = "none"
                    /\ Differs(xm) /\ wy'[c].pc = "audio" =>
                          model' = xm /\ current_model_name' = xm]_vars

\* C17 witness: a /transcribe request answered after one load and one
\* transcription, and a device request that has loaded the model it asked
\* for and is now receiving its audio
C17_Witness ==
    /\ last_response.loads = 1
    /\ last_response.asr_calls = 1
    /\ last_response.status = 200
    /\ \E c \in WyIds :
          /\ wy[c].pc = "audio"
          /\ wy[c].loads = 1
          /\ wy[c].requested = current_model_name

\* a step in which the audio of connection c's request is transcribed
WyTranscriptionStep(c) == wy[c].pc = "audio" /\ wy'[c].used /= "none"

\* C18: no step leaves a model swap half done (the loaded model is the one
\* current_model_name names), and the transcription of a device-protocol
\* request that named model M runs on M, whatever other sessions requested
\* between that request's load and its transcription.
C18_TranscribedOnRequestedModel ==
    [][/\ model' = current_model_name'
       /\ \A c \in WyIds :
            WyTranscriptionStep(c) /\ wy[c].requested /= "none" =>
                wy'[c].used = wy[c].requested]_vars

\* C19: a request whose load_model call fails leaves the loaded model and
\* current_model_name as they were and is answered with the failure (status
\* 500 and the load error's message for /transcribe, an error event with
\* that message on the device protocol), without a transcription; and a
\* /transcribe request that gives no override leaves the model as it was,
\* so that it is transcribed with the previous model.
C19_FailedLoadKeepsModel ==
    [][/\ \A t \in HttpIds :
            TranscribeAnswerStep(t) =>
                /\ last_response'.message = "load failed" =>
                      /\ model' = model
                      /\ current_model_name' = current_model_name
                      /\ last_response'.status = 500
                      /\ last_response'.asr_calls = 0
                /\ last_response'.x_model = "none" =>
                      model' = model /\ current_model_name' = current_model_name
       /\ \A c \in WyIds :
            /\ WyTranscribeStep(c)
            /\ wy'[c].out = <<WyEvent("error:transcription_error",
                                      "load failed")>>
            => /\ model' = model
               /\ current_model_name' = current_model_name
               /\ wy'[c].pc = "loop"]_vars

\* C19 witness: a /transcribe request answered with the load failure while
\* a model other than the start-up model was loaded
C19_Witness ==
    /\ last_response.message = "load failed"
    /\ last_response.x_model = "bogus"
    /\ last_response.status = 500
    /\ model /= StartupModel

\* a step in which connection c, having read audio-start and at least one
\* audio chunk that was not empty, leaves _process_audio_stream with the
\* client still connected
WyAudioDoneStep(c) ==
    /\ wy[c].pc = "audio"
    /\ wy[c].audio_started
    /\ wy[c].audio_buffer > 0
    /\ wy'[c].pc = "loop"

\* C20: a device-protocol Transcribe request followed by audio-start, one
\* or more audio chunks that are not empty and audio-stop is answered with
\* exactly one event: a transcript carrying the engine's text when the
\* engine was called and succeeded, otherwise an error event carrying the
\* message of the failure (of the engine, of the normaliser, or the one the
\* client sent in place of audio-stop); while the audio is being received
\* (audio-start, audio-chunk) nothing is written.
C20_OneResponsePerRequest ==
    [][\A c \in WyIds :
          /\ wy[c].pc = "audio" /\ wy'[c].pc = "audio" =>
                wy'[c].out = <<>>
          /\ WyAudioDoneStep(c) =>
                /\ wy[c].out = <<>>
                /\ Len(wy'[c].out) = 1
                /\ wy'[c].out[1].type = "transcript" =>
                      /\ wy'[c].used /= "none"
                      /\ wy'[c].out[1].text \in AsrOutcomes \ {"fail"}
                /\ wy'[c].out[1].type /= "transcript" =>
                      /\ wy'[c].out[1].type = "error:transcription_error"
                      /\ wy'[c].used /= "none" =>
                            wy'[c].out[1].text = "Transcription failed"
                      /\ wy'[c].used = "none" =>
                            wy'[c].out[1].text \in
                               {"Audio format not supported", "client error"}]_vars

\* C20 witness: a request whose audio was transcribed and answered with
\* the transcript of the engine's text
C20_Witness ==
    \E c \in WyIds :
        /\ wy[c].pc = "loop"
        /\ wy[c].used /= "none"
        /\ wy[c].out = <<WyEvent("transcript", "text")>>

\* a step in which connection c answers an Info event
WyInfoStep(c) ==
    /\ wy[c].pc = "loop"
    /\ n_checks' = n_checks
    /\ wy'[c].out /= wy[c].out

\* C21: an Info event on the device protocol is answered with exactly one
\* capability event, which advertises the model names, the language codes
\* and the audio format, and the connection is in its event loop
\* afterwards, ready for further events.
C21_InfoAnswered ==
    [][\A c \in WyIds :
          WyInfoStep(c) =>
              /\ wy'[c].out =
                    <<WyEvent("info", "models, languages, audio format")>>
              /\ wy'[c].pc = "loop"]_vars

\* C22: for every chunk a WebSocket session has taken in, the voice-activity
\* decision it then holds is a function of that chunk alone: speech exactly
\* when the mean absolute sample value divided by 32768 exceeds 0.001
\* (after the edge logic of lines 211-220 vad_active is the decision made
\* for the last chunk).
C22_GateIsPureEnergyTest ==
    \A s \in WsIds :
        ws[s].last.kind = "chunk" =>
            (ws[s].vad_active <=> ws[s].last.energy * 1000 > 32768)

\* C23: after a chunk that made the receive loop hand the buffer to the
\* transcriber, the buffer is empty, whether the call succeeded or failed,
\* so that the next chunk is appended to an empty buffer and no byte is
\* handed over twice.
C23_FlushEmptiesBuffer ==
    \A s \in WsIds :
        ws[s].last.kind = "chunk" /\ ws[s].last.flushed =>
            ws[s].audio_buffer = 0

\* C24: the audio buffer of a WebSocket session always holds an even number
\* of bytes, between frames and right after a frame has been appended
\* (lines 200-208).
C24_BufferWholeSamples ==
    \A s \in WsIds :
        /\ ws[s].audio_buffer % 2 = 0
        /\ ws[s].last.buffered % 2 = 0

\* C25: the temporary input file of a /transcribe request that is still
\* being written or read is never deleted by the cleanup another request,
\* connection or scheduled background task runs.
C25_TempFilesSurviveOthersCleanup ==
    \A t \in HttpIds : http[t] /= "unlinked"

\* C26: in every state a handler can observe, current_model_name names the
\* model object that is loaded, whatever swaps have succeeded or failed.
C26_NameNamesLoadedModel == model = current_model_name

\* a swap has succeeded and a load made for a /transcribe request has failed
C26_Witness ==
    /\ current_model_name /= StartupModel
    /\ last_response.x_model = "bogus"
    /\ last_response.loads = 1
    /\ last_response.status = 500

\* a WebSocket session returns: its finally clause calls release_resources
WsReleaseStep(s) == ws[s].pc /= "done" /\ ws'[s].pc = "done"

\* C27: whatever check_resources and release_resources calls are made, the
\* counter stays within 0..max_concurrent; a release at zero leaves it at
\* zero and a check_resources call at the cap leaves it at the cap.
C27_CounterWithinRange ==
    /\ [](current_requests \in 0..max_concurrent)
    /\ [][/\ (\E s \in WsIds : WsReleaseStep(s)) /\ current_requests = 0
              => current_requests' = 0
          /\ n_checks' = n_checks + 1 /\ current_requests = max_concurrent
              => current_requests' = max_concurrent]_vars

\* a session released at zero, then the cap was filled and one more
\* check_resources call was refused at the cap
C27_Witness ==
    /\ \E s \in WsIds : ws[s].pc = "done"
    /\ n_checks = max_concurrent + 1
    /\ current_requests = max_concurrent
    /\ last_check.before = max_concurrent
    /\ last_check.res.message = "Too many concurrent requests"

\* C28: after the end-of-stream marker a WebSocket session sends at most one
\* recognition result and at most one error event before it terminates.
C28_EndSendsAtMostOneOfEach ==
    \A s \in WsIds : ws[s].last.kind = "end" =>
        /\ Len(SelectSeq(ws[s].last.emitted, IsResult)) <= 1
        /\ Len(SelectSeq(ws[s].last.emitted, IsError)) <= 1

====
